---- MODULE Spec2Model ----
(***************************************************************************)
(* The notification batch job of comms_service, in its two variants:       *)
(*   "card"    - src/credit_card_reject.go                                 *)
(*   "aadhaar" - src/aadhaar_notifications.go.go                           *)
(* One run of main is modelled: paginated candidate fetch, bulk profile    *)
(* lookup, bulk device-metadata lookup, the per-candidate loop (attempt    *)
(* ledger lookup, policy lookup, buildNotification), printNotifications    *)
(* and the error report.  The tables of the database are state fixed at    *)
(* Init; every query may fail; the wall clock only moves forward.          *)
(*                                                                         *)
(* Time is counted in ticks, the finest resolution of the clock            *)
(* (nanoseconds in Go); one second is TicksPerSecond ticks, not a power of *)
(* two (10^9 in Go).  A float64 number of seconds is a whole number of     *)
(* binary fractions 1/FloatUnit of a second, finer than a tick as the      *)
(* float64 is finer than a nanosecond: Seconds rounds to the nearest one.  *)
(* Delays and attempt numbers stay far below the range of int64.           *)
(***************************************************************************)
EXTENDS Integers, Sequences, FiniteSets, TLC

VARIABLES variant, history, users, headers, ledger, config, now,
          pc, offset, allUsers, userDetailsMap, customHeaders,
          customHeadersMap,
          idx, notifications, errs, printed, reported,
          failedStage, trace

vars == <<variant, history, users, headers, ledger, config, now,
          pc, offset, allUsers, userDetailsMap, customHeaders,
          customHeadersMap,
          idx, notifications, errs, printed, reported,
          failedStage, trace>>

----------------------------------------------------------------------------
\* Bounds of the model.

\* most rows in the custom_headers table of the device-metadata runs
MaxHeaders == 3

\* most rows in the history table
MaxHist == 3
\* most rows in the policy table
MaxConfig == 2
\* most ticks the clock advances during one run
MaxAdvance == 1
\* the clock at the start of the run
Now0 == 4
\* ticks per second (time.Second is 1e9 nanoseconds; scaled)
TicksPerSecond == 5
\* binary fraction digits of a float64 number of seconds (scaled)
FloatBits == 3
\* the lookback window in ticks (7 days; scaled)
LookbackTicks == 2
\* const batchSize = 1000 in main; scaled
batchSize == 2

Min(a, b) == IF a < b THEN a ELSE b

BoundedSubsets(S, n) == {T \in SUBSET S : Cardinality(T) <= n}

\* every arrangement of the finite set S as a sequence without repetition
Perms(S) ==
  {f \in [1..Cardinality(S) -> S] : \A x \in S : \E i \in 1..Cardinality(S) : f[i] = x}

----------------------------------------------------------------------------
\* The tables.

Variants == {"card", "aadhaar"}

Mobiles == {"m1", "m2"}

rejectStatuses ==
  {"AADHAAR_EXPIRED_VID", "AADHAAR_FORBIDDEN_ERR", "AADHAAR_INVALID",
   "AADHAAR_INVALID_VID", "AADHAAR_MOBILE_ERR", "AADHAAR_SUSPENDED"}

failureStatuses ==
  {"AADHAAR_EXCEEDED_OTP", "AADHAAR_DEMOAUTH_FAILED", "AADHAAR_OTP_FAILED",
   "AADHAAR_SERVER_ERR", "AADHAR_VERIFY_4XX", "AADHAR_VERIFY_500",
   "AADHAR_VERIFY_INVALID_OTP", "AADHAAR_SENDOTP_TIMEOUT",
   "AADHAR_VERIFY_TIMEOUT", "AADHAR_VERIFY_MAXOTP_ATTEMPS", "AADHAAR_RATELIMIT"}

\* the event types a candidate of the variant can carry
EventTypes(v) ==
  IF v = "card" THEN {"CREDIT_CARD_REJECTED"}
  ELSE {"AADHAR_FORM_DROPOFF", "AADHAAR_REJECT", "AADHAAR_FAILURE"}

\* created_at of a history row: before the window, and two instants in it
CreatedTimes == {Now0 - LookbackTicks - 1, Now0 - 1, Now0}

\* statuses of the history rows of a run
HistStatuses(v) ==
  IF v = "card" THEN {"DECLINED"} ELSE {"AADHAAR_INVALID", "PAN_FORM"}

\* the status every variant's query accepts
QualifyingStatus(v) == IF v = "card" THEN "DECLINED" ELSE "AADHAAR_INVALID"

\* card_statuses (card) / flow_statuses (aadhaar): the rows of subject m1, and
\* one qualifying row of a second subject m2
HistoryDomain(v) ==
  {[mobile |-> "m1", status |-> s, createdAt |-> t] :
     s \in HistStatuses(v), t \in CreatedTimes}
  \cup {[mobile |-> "m2", status |-> QualifyingStatus(v), createdAt |-> Now0]}

\* users: m2 is user 2; m1 is unknown, unresolved (id 0) or user 1
User2 ==
  [ID |-> 2, FullName |-> "n2", MobileNumber |-> "m2", PlainMobileNumber |-> "p2"]

UsersOfM1 ==
  {[ID |-> 0, FullName |-> "n0", MobileNumber |-> "m1", PlainMobileNumber |-> "p0"],
   [ID |-> 1, FullName |-> "n1", MobileNumber |-> "m1", PlainMobileNumber |-> "p1"]}

\* custom_headers: user 2 has a device; user 1 has one or none
Header2 ==
  [UserID |-> 2, XPlatform |-> "android", XDeviceToken |-> "tok2", UpdatedAt |-> 1]

HeadersOfUser1 ==
  {[UserID |-> 1, XPlatform |-> "ios", XDeviceToken |-> "tok1", UpdatedAt |-> 1]}

\* the event type the ledger and the policy table have rows for
LedgerEvent(v) == IF v = "card" THEN "CREDIT_CARD_REJECTED" ELSE "AADHAAR_REJECT"

\* notification_status: rows of user 1, the later update with the lower attempt
LedgerDomain(v) ==
  {[UserID |-> 1, EventName |-> LedgerEvent(v), Attempt |-> a[1], UpdatedAt |-> a[2]] :
     a \in {<<1, 2>>, <<2, 1>>}}

\* notification_config: (attempt, delay in seconds)
ConfigDomain(v) ==
  {[EventName |-> LedgerEvent(v), Attempt |-> a[1], Delay |-> a[2], Channel |-> "push",
    EventID |-> 10 * a[1] + a[2]] :
     a \in {<<1, 0>>, <<1, 1>>, <<2, 1>>}}

----------------------------------------------------------------------------
\* The Candidate Source.

\* created_at >= NOW() - INTERVAL '<lookback>'
InWindow(r, t) == r.createdAt >= t - LookbackTicks

\* mutant of EventTypeOf: the NOT EXISTS test of the first branch is left out
EventTypeOfNoExistsTest(r, hist) ==
  IF r.status = "PAN_FORM" THEN "AADHAR_FORM_DROPOFF"
  ELSE IF r.status \in rejectStatuses THEN "AADHAAR_REJECT"
  ELSE IF r.status \in failureStatuses THEN "AADHAAR_FAILURE"
  ELSE "UNKNOWN"

\* the CASE expression of fetchUsers' query
EventTypeOf(r, hist) ==
  IF /\ r.status = "PAN_FORM"
     /\ ~ \E r2 \in hist : r2.mobile = r.mobile /\ r2.status = "AADHAR"
    THEN "AADHAR_FORM_DROPOFF"
  ELSE IF r.status \in rejectStatuses THEN "AADHAAR_REJECT"
  ELSE IF r.status \in failureStatuses THEN "AADHAAR_FAILURE"
  ELSE "UNKNOWN"

\* The rows of the card query: DISTINCT (mobile_number, created_at) of the
\* DECLINED rows in the window; reasons is not selected and scans as "".
CardResultSet(hist, t) ==
  {[MobileNumber |-> r.mobile, Reasons |-> "", Status |-> "",
    CreatedAt |-> r.createdAt, EventType |-> "CREDIT_CARD_REJECTED"] :
     r \in {x \in hist : x.status = "DECLINED" /\ InWindow(x, t)}}

\* The possible row sets of the Aadhaar query: per mobile_number the row
\* ranked first by created_at DESC (any of them when created_at ties), kept
\* when it classifies to a recognized event type.
AadhaarResultSets(hist, t) ==
  LET win == {x \in hist : InWindow(x, t)}
      keys == {x.mobile : x \in win}
      firsts == {f \in [keys -> win] :
                   \A m \in keys :
                     /\ f[m].mobile = m
                     /\ \A x \in win : x.mobile = m => x.createdAt <= f[m].createdAt}
  IN {{[MobileNumber |-> f[m].mobile, Reasons |-> "", Status |-> f[m].status,
        CreatedAt |-> f[m].createdAt, EventType |-> EventTypeOf(f[m], hist)] :
         m \in {k \in keys : EventTypeOf(f[k], hist) \in EventTypes("aadhaar")}} :
      f \in firsts}

\* The possible full results of the query at time t: it has no ORDER BY, so
\* the rows come in any order.
QueryResults(v, hist, t) ==
  UNION {Perms(S) : S \in (IF v = "card" THEN {CardResultSet(hist, t)}
                           ELSE AadhaarResultSets(hist, t))}

\* LIMIT batchSize OFFSET off
PageOf(full, off) == SubSeq(full, off + 1, Min(off + batchSize, Len(full)))

\* the rows of a page that are appended to allUsers
KeptRows(v, page) ==
  IF v = "card" THEN SelectSeq(page, LAMBDA u : u.MobileNumber # "") ELSE page

\* mutant of FetchErrorResult: the rows of the earlier pages are returned
FetchErrorPartial(acc) == acc

\* what the source returns beside the error when a page fetch fails
FetchErrorResult(acc) == << >>

----------------------------------------------------------------------------
\* The bulk lookups.

\* mobileNumbers of main: the distinct mobile numbers of allUsers
MobileNumbersOf(cands) == {cands[i].MobileNumber : i \in 1..Len(cands)}

\* The maps fetchUserDetails can return: one entry per mobile number that has
\* a users row, holding the row scanned last for it.
UserDetailsMaps(tbl, mobileNumbers) ==
  LET rows == {u \in tbl : u.MobileNumber \in mobileNumbers}
      keys == {u.MobileNumber : u \in rows}
  IN {f \in [keys -> rows] : \A m \in keys : f[m].MobileNumber = m}

\* userIDs of main: the nonzero ids of the resolved profiles
UserIDsOf(detailsMap) ==
  {detailsMap[m].ID : m \in {k \in DOMAIN detailsMap : detailsMap[k].ID # 0}}

\* The possible results of fetchCustomHeader's query: the rows of userIDs in
\* the order "user_id, updated_at DESC".
OrderedHeaders(tbl, userIDs) ==
  {s \in Perms({h \in tbl : h.UserID \in userIDs}) :
     \A i, j \in 1..Len(s) :
       i < j => \/ s[i].UserID < s[j].UserID
                \/ s[i].UserID = s[j].UserID /\ s[i].UpdatedAt >= s[j].UpdatedAt}

\* mutant of HeadersMapOf: a later row of a user id replaces the entry
RECURSIVE HeadersMapOfLastWins(_, _)
HeadersMapOfLastWins(rows, acc) ==
  IF rows = << >> THEN acc
  ELSE LET h == Head(rows)
       IN HeadersMapOfLastWins(Tail(rows),
            [k \in DOMAIN acc \cup {h.UserID} |->
               IF k = h.UserID
                 THEN [XPlatform |-> h.XPlatform, XDeviceToken |-> h.XDeviceToken]
                 ELSE acc[k]])

\* the loop of fetchCustomHeader: the first row of a user id is kept
RECURSIVE HeadersMapOf(_, _)
HeadersMapOf(rows, acc) ==
  IF rows = << >> THEN acc
  ELSE LET h == Head(rows)
       IN HeadersMapOf(Tail(rows),
            IF h.UserID \in DOMAIN acc THEN acc
            ELSE [k \in DOMAIN acc \cup {h.UserID} |->
                    IF k = h.UserID
                      THEN [XPlatform |-> h.XPlatform, XDeviceToken |-> h.XDeviceToken]
                      ELSE acc[k]])

EmptyMap == [k \in {} |-> 0]

----------------------------------------------------------------------------
\* The per-candidate lookups.

ZeroStatus == [EventName |-> "", Attempt |-> 0]

ZeroConfig == [Delay |-> 0, Channel |-> "", EventName |-> "", EventID |-> 0]

\* The possible results of fetchNotificationStatus' query: the row of
\* (userID, eventName) updated last, the zero value when there is none.
fetchNotificationStatus(tbl, userID, eventName) ==
  LET rows == {r \in tbl : r.UserID = userID /\ r.EventName = eventName}
      latest == {r \in rows : \A q \in rows : q.UpdatedAt <= r.UpdatedAt}
  IN IF rows = {} THEN {ZeroStatus}
     ELSE {[EventName |-> r.EventName, Attempt |-> r.Attempt] : r \in latest}

\* mutant of NextAttempt: the recorded attempt is used again
NextAttemptNoIncrement(notificationStatus) ==
  IF notificationStatus.EventName # "" THEN notificationStatus.Attempt ELSE 1

\* attempt of main
NextAttempt(notificationStatus) ==
  IF notificationStatus.EventName # "" THEN notificationStatus.Attempt + 1 ELSE 1

\* mutant of ConfigRows: any attempt of the event type serves
ConfigRowsAnyAttempt(tbl, eventName, attempt) ==
  {c \in tbl : c.EventName = eventName}

\* the rows the policy query selects
ConfigRows(tbl, eventName, attempt) ==
  {c \in tbl : c.EventName = eventName /\ c.Attempt = attempt}

\* The possible results of fetchNotificationConfig's query (LIMIT 1, no
\* order): a matching row, the zero value when there is none.
ConfigQuery(tbl, eventName, attempt) ==
  LET rows == ConfigRows(tbl, eventName, attempt)
  IN IF rows = {} THEN {ZeroConfig}
     ELSE {[Delay |-> c.Delay, Channel |-> c.Channel, EventName |-> c.EventName,
            EventID |-> c.EventID] : c \in rows}

\* What fetchNotificationConfig returns, given whether the query failed and
\* what it scanned: the card variant returns the error, the Aadhaar variant
\* logs it and returns the zero value with a nil error.
fetchNotificationConfig(v, failed, scanned) ==
  IF v = "card"
    THEN IF failed THEN [cfg |-> ZeroConfig, err |-> TRUE]
         ELSE [cfg |-> scanned, err |-> FALSE]
    ELSE IF failed \/ scanned.EventName = ""
           THEN [cfg |-> ZeroConfig, err |-> FALSE]
           ELSE [cfg |-> scanned, err |-> FALSE]

----------------------------------------------------------------------------
\* The Scheduler/Assembler and the Reporter.

\* Notification{}
EmptyNotification ==
  [Event |-> "", Delay |-> 0, UserID |-> 0, Mobile |-> "", PlainMobile |-> "",
   CurrentStatus |-> "", Attempt |-> 0, Source |-> "", Channel |-> "",
   Name |-> "", Reasons |-> "", DeviceToken |-> "", EventID |-> 0]

\* the source tag when SOURCE is unset
DefaultSource(v) ==
  IF v = "card" THEN "legacy credit card rejected default" ELSE "legacy card default"

\* the header main substitutes when the user has none
PlaceholderHeader(v) ==
  [XPlatform |-> "Unknown",
   XDeviceToken |-> IF v = "card" THEN "Not Available" ELSE ""]

\* mutant of HeaderFor: a user without a header gets another user's
HeaderForAny(v, headersMap, userID) ==
  IF userID \in DOMAIN headersMap THEN headersMap[userID]
  ELSE IF DOMAIN headersMap # {}
    THEN headersMap[CHOOSE k \in DOMAIN headersMap : TRUE]
  ELSE PlaceholderHeader(v)

\* customHeader of main
HeaderFor(v, headersMap, userID) ==
  IF userID \in DOMAIN headersMap THEN headersMap[userID] ELSE PlaceholderHeader(v)

\* mutant of ProfileResolved: a profile with id 0 passes
ProfileExists(detailsMap, mobile) == mobile \in DOMAIN detailsMap

\* the candidate has a usable profile
ProfileResolved(detailsMap, mobile) ==
  mobile \in DOMAIN detailsMap /\ detailsMap[mobile].ID # 0

\* the unit of a float64 number of seconds is 1/FloatUnit s
FloatUnit == 2 ^ FloatBits

\* n / d rounded to the nearest integer, d > 0
RoundDiv(n, d) == (2 * n + d) \div (2 * d)

\* Duration.Seconds() of d ticks, float64(sec) + float64(nsec)/1e9, as a
\* number of float units
Seconds(d) ==
  LET sec == IF d >= 0 THEN d \div TicksPerSecond ELSE - ((- d) \div TicksPerSecond)
      nsec == d - sec * TicksPerSecond
  IN sec * FloatUnit + RoundDiv(nsec * FloatUnit, TicksPerSecond)

\* mutant of NewDelay: the delay is cut to whole seconds
NewDelayWholeSeconds(userFlow, notificationConfig, t) ==
  LET d == userFlow.CreatedAt + notificationConfig.Delay * TicksPerSecond - t
  IN (IF d >= 0 THEN d \div TicksPerSecond ELSE - ((- d) \div TicksPerSecond)) * FloatUnit

\* newDelay of buildNotification, evaluated at clock t
NewDelay(userFlow, notificationConfig, t) ==
  Seconds(userFlow.CreatedAt + notificationConfig.Delay * TicksPerSecond - t)

\* mutant of PastDue: a remaining delay of 0 is suppressed too
PastDueOrNow(newDelay) == newDelay <= 0

\* the past-due test of buildNotification
PastDue(newDelay) == newDelay < 0

buildNotification(v, userFlow, userDetail, customHeader, notificationConfig, attempt, t) ==
  LET newDelay == NewDelay(userFlow, notificationConfig, t)
  IN IF PastDue(newDelay) THEN EmptyNotification
     ELSE [Event |-> notificationConfig.EventName,
           Delay |-> newDelay,
           UserID |-> userDetail.ID,
           Mobile |-> userFlow.MobileNumber,
           PlainMobile |-> userDetail.PlainMobileNumber,
           CurrentStatus |-> IF v = "card" THEN "DECLINED" ELSE userFlow.Status,
           Attempt |-> attempt,
           Source |-> DefaultSource(v),
           Channel |-> notificationConfig.Channel,
           Name |-> userDetail.FullName,
           Reasons |-> userFlow.Reasons,
           DeviceToken |-> customHeader.XDeviceToken,
           EventID |-> notificationConfig.EventID]

\* mutant of Rendered: no element is skipped
RenderedAll(notifs) == notifs

\* the blocks printNotifications writes, in order
Rendered(notifs) == SelectSeq(notifs, LAMBDA n : n.Event # "")

\* the numbered error list main logs
ErrorReport(es) == [i \in 1..Len(es) |-> [n |-> i, err |-> es[i]]]

----------------------------------------------------------------------------
\* The run.

\* the instants the clock can show at its next reading
ClockReadings == {t \in now..(Now0 + MaxAdvance) : TRUE}

\* fmt.Errorf("error fetching notification status for user_id %d, event %s: %v")
StatusError(userID, eventName) ==
  [kind |-> "status", userID |-> userID, eventName |-> eventName]

\* the query error fetchNotificationConfig returns as it is
ConfigError == [kind |-> "config", userID |-> 0, eventName |-> ""]

\* one entry of trace: what the loop body did for one candidate
TraceEntry(outcome, userID, statusQueried, configQueried, configFailed, attempt, cfg, at) ==
  [outcome |-> outcome, userID |-> userID, statusQueried |-> statusQueried,
   configQueried |-> configQueried, configFailed |-> configFailed,
   attempt |-> attempt, cfg |-> cfg, at |-> at]

Init ==
  /\ variant \in Variants
  /\ history \in BoundedSubsets(HistoryDomain(variant), MaxHist)
  /\ users \in {{User2} \cup T : T \in BoundedSubsets(UsersOfM1, 1)}
  /\ headers \in {{Header2} \cup T : T \in SUBSET HeadersOfUser1}
  /\ ledger \in SUBSET LedgerDomain(variant)
  /\ config \in BoundedSubsets(ConfigDomain(variant), MaxConfig)
  /\ now = Now0
  /\ pc = "fetch"
  /\ offset = 0
  /\ allUsers = << >>
  /\ userDetailsMap = EmptyMap
  /\ customHeaders = << >>
  /\ customHeadersMap = EmptyMap
  /\ idx = 1
  /\ notifications = << >>
  /\ errs = << >>
  /\ printed = << >>
  /\ reported = << >>
  /\ failedStage = "none"
  /\ trace = << >>

\* One iteration of the pagination loop of fetchCreditCardRejectedUsers /
\* fetchUsers; on the last one, the return to main, which exits with status 1
\* on an error and (card variant) returns when there is no candidate.
FetchPage ==
  /\ pc = "fetch"
  /\ \E t \in ClockReadings, failed \in BOOLEAN :
       /\ now' = t
       /\ IF failed
            THEN /\ allUsers' = FetchErrorResult(allUsers)
                 /\ pc' = "exit1"
                 /\ failedStage' = "fetch"
                 /\ UNCHANGED offset
            ELSE \E full \in QueryResults(variant, history, t) :
                   LET page == PageOf(full, offset)
                       acc == allUsers \o KeptRows(variant, page)
                   IN /\ allUsers' = acc
                      /\ UNCHANGED failedStage
                      /\ IF Len(page) < batchSize
                           THEN /\ pc' = IF variant = "card" /\ Len(acc) = 0
                                           THEN "done" ELSE "details"
                                /\ UNCHANGED offset
                           ELSE /\ pc' = "fetch"
                                /\ offset' = offset + batchSize
  /\ UNCHANGED <<variant, history, users, headers, ledger, config,
                 userDetailsMap, customHeaders, customHeadersMap, idx, notifications, errs,
                 printed, reported, trace>>

\* main: collect the distinct mobile numbers, fetchUserDetails
FetchUserDetails ==
  /\ pc = "details"
  /\ \E failed \in BOOLEAN :
       IF failed
         THEN /\ pc' = "exit1"
              /\ failedStage' = "details"
              /\ UNCHANGED userDetailsMap
         ELSE /\ userDetailsMap' \in UserDetailsMaps(users, MobileNumbersOf(allUsers))
              /\ pc' = "headers"
              /\ UNCHANGED failedStage
  /\ UNCHANGED <<variant, history, users, headers, ledger, config, now, offset,
                 allUsers, customHeaders, customHeadersMap, idx, notifications, errs, printed,
                 reported, trace>>

\* main: collect the user ids, fetchCustomHeader
FetchCustomHeader ==
  /\ pc = "headers"
  /\ \E failed \in BOOLEAN :
       IF failed
         THEN /\ pc' = "exit1"
              /\ failedStage' = "headers"
              /\ UNCHANGED <<customHeaders, customHeadersMap>>
         ELSE /\ \E rows \in OrderedHeaders(headers, UserIDsOf(userDetailsMap)) :
                   /\ customHeaders' = rows
                   /\ customHeadersMap' = HeadersMapOf(rows, EmptyMap)
              /\ pc' = "loop"
              /\ UNCHANGED failedStage
  /\ UNCHANGED <<variant, history, users, headers, ledger, config, now, offset,
                 allUsers, userDetailsMap, idx, notifications, errs, printed,
                 reported, trace>>

\* the end of one iteration of main's loop over allUsers
LoopStep(entry, notifs, es, t) ==
  /\ trace' = Append(trace, entry)
  /\ notifications' = notifs
  /\ errs' = es
  /\ now' = t
  /\ idx' = idx + 1

\* one iteration of main's loop over allUsers
ProcessCandidate ==
  /\ pc = "loop"
  /\ idx <= Len(allUsers)
  /\ LET userFlow == allUsers[idx]
         eventName == allUsers[idx].EventType
     IN IF ~ ProfileResolved(userDetailsMap, userFlow.MobileNumber)
          THEN LoopStep(TraceEntry("no_profile", 0, FALSE, FALSE, FALSE, 0, ZeroConfig, now),
                        notifications, errs, now)
          ELSE
            LET userDetail == userDetailsMap[userFlow.MobileNumber]
                customHeader == HeaderFor(variant, customHeadersMap, userDetail.ID)
            IN \E statusFailed \in BOOLEAN :
                 IF statusFailed
                   THEN LoopStep(TraceEntry("status_error", userDetail.ID, TRUE, FALSE,
                                            FALSE, 0, ZeroConfig, now),
                                 notifications,
                                 Append(errs, StatusError(userDetail.ID, eventName)), now)
                   ELSE
                     \E notificationStatus \in
                          fetchNotificationStatus(ledger, userDetail.ID, eventName) :
                       LET attempt == NextAttempt(notificationStatus)
                       IN \E configFailed \in BOOLEAN,
                             scanned \in ConfigQuery(config, eventName, attempt) :
                            LET got == fetchNotificationConfig(variant, configFailed, scanned)
                            IN IF got.err
                                 THEN LoopStep(TraceEntry("config_error", userDetail.ID, TRUE,
                                                          TRUE, configFailed, attempt,
                                                          ZeroConfig, now),
                                               notifications, Append(errs, ConfigError), now)
                               ELSE IF got.cfg.EventName = ""
                                 THEN LoopStep(TraceEntry("no_policy", userDetail.ID, TRUE,
                                                          TRUE, configFailed, attempt,
                                                          ZeroConfig, now),
                                               notifications, errs, now)
                               ELSE \E t \in ClockReadings :
                                      LoopStep(TraceEntry("built", userDetail.ID, TRUE, TRUE,
                                                          configFailed, attempt, got.cfg, t),
                                               Append(notifications,
                                                      buildNotification(variant, userFlow,
                                                        userDetail, customHeader, got.cfg,
                                                        attempt, t)),
                                               errs, t)
  /\ UNCHANGED <<variant, history, users, headers, ledger, config, pc, offset,
                 allUsers, userDetailsMap, customHeaders, customHeadersMap, printed, reported,
                 failedStage>>

\* main after the loop: printNotifications, then the numbered error list
Finish ==
  /\ pc = "loop"
  /\ idx > Len(allUsers)
  /\ printed' = Rendered(notifications)
  /\ reported' = ErrorReport(errs)
  /\ pc' = "done"
  /\ UNCHANGED <<variant, history, users, headers, ledger, config, now, offset,
                 allUsers, userDetailsMap, customHeaders, customHeadersMap, idx, notifications,
                 errs, failedStage, trace>>

Next ==
  \/ FetchPage
  \/ FetchUserDetails
  \/ FetchCustomHeader
  \/ ProcessCandidate
  \/ Finish

Spec == Init /\ [][Next]_vars

----------------------------------------------------------------------------
\* The Candidate Source alone, over history tables with every kind of row:
\* empty mobile numbers, statuses of each class and of none.

\* statuses of history rows: the first PAN_FORM/DECLINED rows qualify, the
\* last ones classify to no event
SourceStatuses(v) ==
  IF v = "card" THEN {"DECLINED", "APPROVED"}
  ELSE {"PAN_FORM", "AADHAR", "AADHAAR_INVALID", "AADHAAR_OTP_FAILED"}

SourceHistoryDomain(v) ==
  {[mobile |-> "m1", status |-> s, createdAt |-> c] :
     s \in SourceStatuses(v), c \in CreatedTimes}
    \cup {[mobile |-> "", status |-> QualifyingStatus(v), createdAt |-> Now0]}
    \cup {[mobile |-> "m2", status |-> IF v = "card" THEN "DECLINED" ELSE "PAN_FORM",
           createdAt |-> Now0],
          [mobile |-> "m2", status |-> IF v = "card" THEN "APPROVED" ELSE "AADHAR",
           createdAt |-> Now0 - 1]}

InitSource ==
  /\ variant \in Variants
  /\ history \in BoundedSubsets(SourceHistoryDomain(variant), MaxHist)
  /\ users = {}
  /\ headers = {}
  /\ ledger = {}
  /\ config = {}
  /\ now = Now0
  /\ pc = "fetch"
  /\ offset = 0
  /\ allUsers = << >>
  /\ userDetailsMap = EmptyMap
  /\ customHeaders = << >>
  /\ customHeadersMap = EmptyMap
  /\ idx = 1
  /\ notifications = << >>
  /\ errs = << >>
  /\ printed = << >>
  /\ reported = << >>
  /\ failedStage = "none"
  /\ trace = << >>

NextSource == FetchPage

SpecSource == InitSource /\ [][NextSource]_vars

----------------------------------------------------------------------------
\* The run up to the Device Metadata Lookup, over custom_headers tables with
\* several rows per user id, equal and different update times, and rows of a
\* user id that is not asked for.

HeaderRowsDomain ==
  {[UserID |-> u, XPlatform |-> "android", XDeviceToken |-> d, UpdatedAt |-> t] :
     u \in {1, 2, 3}, d \in {"tokA", "tokB"}, t \in {1, 2}}

InitHeaders ==
  /\ variant \in Variants
  /\ history = {[mobile |-> m, status |-> QualifyingStatus(variant), createdAt |-> Now0] :
                  m \in Mobiles}
  /\ users \in {T \cup U : T \in BoundedSubsets(UsersOfM1, 1), U \in SUBSET {User2}}
  /\ headers \in BoundedSubsets(HeaderRowsDomain, MaxHeaders)
  /\ ledger = {}
  /\ config = {}
  /\ now = Now0
  /\ pc = "fetch"
  /\ offset = 0
  /\ allUsers = << >>
  /\ userDetailsMap = EmptyMap
  /\ customHeaders = << >>
  /\ customHeadersMap = EmptyMap
  /\ idx = 1
  /\ notifications = << >>
  /\ errs = << >>
  /\ printed = << >>
  /\ reported = << >>
  /\ failedStage = "none"
  /\ trace = << >>

NextHeaders ==
  \/ FetchPage
  \/ FetchUserDetails
  \/ FetchCustomHeader

SpecHeaders == InitHeaders /\ [][NextHeaders]_vars

----------------------------------------------------------------------------
\* Vocabulary of the properties.  trace[k] is what the loop did for allUsers[k].

\* the candidate source has returned to main without an error
SourceReturned == pc # "fetch" /\ failedStage # "fetch"

\* candidates the loop has processed
Processed == 1..Len(trace)

\* candidates for which buildNotification was called
BuiltIdx == {k \in Processed : trace[k].outcome = "built"}

\* the place in notifications of the result of candidate k's buildNotification
Pos(k) == Cardinality({j \in BuiltIdx : j <= k})

\* occurredAt + delaySeconds - now of candidate k, in ticks
RemainingDelay(k) ==
  allUsers[k].CreatedAt + trace[k].cfg.Delay * TicksPerSecond - trace[k].at

\* the elements of s at the places I, in order
SubSeqAt(s, I) ==
  [j \in 1..Cardinality(I) |-> s[CHOOSE i \in I : Cardinality({x \in I : x <= i}) = j]]

\* the records of the candidates whose remaining delay is not negative
DueRecords ==
  SubSeqAt(notifications, {Pos(k) : k \in {j \in BuiltIdx : RemainingDelay(j) >= 0}})

\* candidates whose ledger or policy lookup gave an error to main
ErrorIdx == {k \in Processed : trace[k].outcome \in {"status_error", "config_error"}}

\* the history rows of mobile m that the variant's query accepts at time t
QualifyingRows(m, t) ==
  {r \in history :
     /\ r.mobile = m
     /\ r.createdAt >= t - LookbackTicks
     /\ IF variant = "card" THEN r.status = "DECLINED"
        ELSE \/ r.status = "PAN_FORM"
                /\ ~ \E q \in history : q.mobile = m /\ q.status = "AADHAR"
             \/ r.status \in rejectStatuses \cup failureStatuses}

\* the ledger rows of (userID, eventName) that were updated last
LatestLedgerRows(userID, eventName) ==
  {r \in ledger :
     /\ r.UserID = userID /\ r.EventName = eventName
     /\ \A q \in ledger :
          (q.UserID = userID /\ q.EventName = eventName) => q.UpdatedAt <= r.UpdatedAt}

\* the policy rows configured for exactly (eventName, attempt)
PolicyRows(eventName, attempt) ==
  {c \in config : c.EventName = eventName /\ c.Attempt = attempt}

----------------------------------------------------------------------------
\* C1: once the Candidate Source has returned, every mobile number with two or
\* more qualifying history rows in the lookback window has exactly one
\* candidate, and that candidate carries the latest created_at of those rows.
C1_OneCandidatePerSubject ==
  SourceReturned =>
    \A m \in Mobiles :
      LET rows == QualifyingRows(m, now)
          mine == {i \in 1..Len(allUsers) : allUsers[i].MobileNumber = m}
      IN Cardinality(rows) >= 2 =>
           /\ Cardinality(mine) = 1
           /\ \A i \in mine : \A r \in rows : r.createdAt <= allUsers[i].CreatedAt

\* C2: for a candidate with a resolved profile and a configured policy,
\* buildNotification gives a record carrying the remaining delay when that
\* delay is >= 0 (0 included) and the empty record when it is negative; when
\* the run is done the rendered output is exactly the records of the
\* candidates with a non-negative remaining delay, and only failed lookups
\* have added to the error list.
C2_DelaySignDecides ==
  /\ Len(notifications) = Cardinality(BuiltIdx)
  /\ Len(errs) = Cardinality(ErrorIdx)
  /\ \A k \in BuiltIdx :
       LET n == notifications[Pos(k)]
       IN /\ RemainingDelay(k) >= 0 =>
               /\ n.Event = allUsers[k].EventType
               /\ n.Delay >= 0
               /\ 2 * (n.Delay * TicksPerSecond - RemainingDelay(k) * FloatUnit)
                    \in (- TicksPerSecond)..TicksPerSecond
               /\ n.Mobile = allUsers[k].MobileNumber
               /\ n.UserID = trace[k].userID
          /\ RemainingDelay(k) < 0 => n.Event = ""
  /\ pc = "done" => printed = DueRecords

\* C2's case: one run with a candidate emitted at a remaining delay of exactly
\* 0 and a candidate suppressed at the smallest negative delay.
C2_Witness ==
  /\ pc = "done"
  /\ \E k \in BuiltIdx : RemainingDelay(k) = 0 /\ notifications[Pos(k)] \in
       {printed[i] : i \in 1..Len(printed)}
  /\ \E k \in BuiltIdx : RemainingDelay(k) = -1
  /\ Len(printed) = 1

\* C3: the attempt number used for a candidate's policy lookup is 1 when the
\* ledger has no row for (identity, event type) and N+1 when its row updated
\* last has attempt N; an emitted record carries that number and the policy of
\* exactly that number.
C3_NextAttempt ==
  \A k \in Processed :
    trace[k].configQueried =>
      LET ev == allUsers[k].EventType
          latest == LatestLedgerRows(trace[k].userID, ev)
          a == trace[k].attempt
      IN /\ latest = {} => a = 1
         /\ latest # {} => \E r \in latest : a = r.Attempt + 1
         /\ (k \in BuiltIdx /\ notifications[Pos(k)].Event # "") =>
              /\ notifications[Pos(k)].Attempt = a
              /\ \E c \in PolicyRows(ev, a) :
                   /\ notifications[Pos(k)].EventID = c.EventID
                   /\ notifications[Pos(k)].Channel = c.Channel
                   /\ trace[k].cfg.Delay = c.Delay

\* C3's case: one run that printed a first attempt (no ledger row) and a
\* second attempt (the latest ledger row has attempt 1).
C3_Witness ==
  /\ pc = "done"
  /\ \E i, j \in 1..Len(printed) :
       /\ printed[i].Attempt = 1
       /\ LatestLedgerRows(printed[i].UserID, printed[i].Event) = {}
       /\ printed[j].Attempt = 2
       /\ \E r \in LatestLedgerRows(printed[j].UserID, printed[j].Event) : r.Attempt = 1

\* C4: a candidate whose (event type, resolved attempt) has no policy row gets
\* no record, and no error unless the policy query itself failed; a record is
\* only built from a policy row of exactly that event type and attempt.
C4_NoPolicyNoRecord ==
  /\ Len(notifications) = Cardinality(BuiltIdx)
  /\ Len(errs) = Cardinality(ErrorIdx)
  /\ \A k \in Processed :
       trace[k].configQueried =>
         LET rows == PolicyRows(allUsers[k].EventType, trace[k].attempt)
         IN /\ rows = {} => k \notin BuiltIdx
            /\ (rows = {} /\ ~ trace[k].configFailed) => k \notin ErrorIdx
            /\ k \in BuiltIdx =>
                 \E c \in rows : /\ trace[k].cfg.EventID = c.EventID
                                 /\ trace[k].cfg.Delay = c.Delay

\* C4's case: a finished run in which a candidate resolved to an attempt that
\* has no policy row while another attempt of the same event type has one.
C4_Witness ==
  /\ pc = "done"
  /\ \E k \in Processed :
       /\ trace[k].outcome = "no_policy"
       /\ ~ trace[k].configFailed
       /\ PolicyRows(allUsers[k].EventType, trace[k].attempt) = {}
       /\ \E c \in config : c.EventName = allUsers[k].EventType
       /\ errs = << >>
       /\ printed = << >>

\* C5: every candidate whose ledger or policy lookup failed with a query error
\* has its error in the collected list, and the finished run reports each
\* collected error once.
C5_LookupErrorsCollected ==
  LET failedIdx == {k \in Processed :
                      trace[k].outcome = "status_error" \/ trace[k].configFailed}
  IN /\ \A k \in failedIdx : k \notin BuiltIdx
     /\ Len(errs) = Cardinality(failedIdx)
     /\ pc = "done" =>
          /\ Len(reported) = Cardinality(failedIdx)
          /\ \A i \in 1..Len(reported) : reported[i] = [n |-> i, err |-> errs[i]]

\* C6: a failed page fetch or bulk lookup ends the run with exit status 1,
\* nothing runs after it, no ledger or policy lookup was made, nothing is
\* rendered, and a failed page fetch leaves no candidate list.
C6_FetchFailureIsFatal ==
  /\ failedStage # "none" => pc = "exit1"
  /\ pc = "exit1" =>
       /\ failedStage # "none"
       /\ ~ ENABLED Next
       /\ trace = << >>
       /\ notifications = << >>
       /\ printed = << >>
       /\ reported = << >>
  /\ failedStage = "fetch" => allUsers = << >>

\* C6's case: the second page fetch fails after a first page that held rows.
C6_Witness ==
  /\ pc = "exit1"
  /\ failedStage = "fetch"
  /\ offset > 0

\* C7: a candidate whose mobile number has no profile in the bulk lookup
\* result, or a profile with id 0, causes no ledger or policy lookup, no
\* record and no error.
C7_NoProfileNoRecord ==
  /\ Len(notifications) = Cardinality(BuiltIdx)
  /\ Len(errs) = Cardinality(ErrorIdx)
  /\ \A k \in Processed :
       LET m == allUsers[k].MobileNumber
       IN (m \notin DOMAIN userDetailsMap \/ userDetailsMap[m].ID = 0) =>
            /\ ~ trace[k].statusQueried
            /\ ~ trace[k].configQueried
            /\ k \notin BuiltIdx
            /\ k \notin ErrorIdx
  /\ \A m \in MobileNumbersOf(allUsers) :
       (pc \in {"loop", "done"} /\ ~ \E u \in users : u.MobileNumber = m) =>
         m \notin DOMAIN userDetailsMap
  /\ \A i \in 1..Len(printed) : printed[i].UserID # 0

\* C7's case: a finished run with a candidate whose profile has id 0 beside a
\* candidate that was printed.
C7_Witness ==
  /\ pc = "done"
  /\ \E k \in Processed :
       /\ allUsers[k].MobileNumber \in DOMAIN userDetailsMap
       /\ userDetailsMap[allUsers[k].MobileNumber].ID = 0
  /\ Len(printed) = 1

\* C8: a candidate whose user has no custom_headers row goes on to the ledger
\* lookup (and, when that succeeds, to the policy lookup), and a record
\* emitted for it carries the variant's placeholder device token.
C8_MissingHeaderPlaceholder ==
  \A k \in Processed :
    LET m == allUsers[k].MobileNumber
    IN (/\ m \in DOMAIN userDetailsMap
        /\ userDetailsMap[m].ID # 0
        /\ ~ \E h \in headers : h.UserID = userDetailsMap[m].ID) =>
         /\ trace[k].statusQueried
         /\ trace[k].outcome # "status_error" => trace[k].configQueried
         /\ (k \in BuiltIdx /\ notifications[Pos(k)].Event # "") =>
              notifications[Pos(k)].DeviceToken =
                (IF variant = "card" THEN "Not Available" ELSE "")

\* C8's case: a finished run that printed a record for user 1, who has no
\* device row, and one for user 2, who has.
C8_Witness ==
  /\ pc = "done"
  /\ ~ \E h \in headers : h.UserID = 1
  /\ \E i, j \in 1..Len(printed) :
       /\ printed[i].UserID = 1
       /\ printed[i].DeviceToken \in {"Not Available", ""}
       /\ printed[j].UserID = 2
       /\ printed[j].DeviceToken = "tok2"

\* C9: when the Candidate Source returned no candidate, the run does not end
\* with exit status 1 and renders nothing.
C9_EmptyCandidatesExitZero ==
  (SourceReturned /\ allUsers = << >>) => (pc # "exit1" /\ printed = << >>)

\* C10 as stated: the list handed to printNotifications holds no element of a
\* suppressed candidate, and every element of it is rendered.
C10_ListHoldsOnlyEmitted ==
  /\ \A i \in 1..Len(notifications) : notifications[i].Event # ""
  /\ pc = "done" => printed = notifications

\* C10 as amended: the list handed to printNotifications holds one element per
\* candidate that reached buildNotification, the empty record for a past-due
\* candidate and the emitted record otherwise; printNotifications skips the
\* elements with an empty Event and renders every other element, in order.
C10_RenderedAreTheEmitted ==
  /\ Len(notifications) = Cardinality(BuiltIdx)
  /\ \A k \in BuiltIdx :
       notifications[Pos(k)].Event = "" <=> RemainingDelay(k) < 0
  /\ pc = "done" =>
       printed = SubSeqAt(notifications,
                          {i \in 1..Len(notifications) : notifications[i].Event # ""})

\* C10's case: the list handed to printNotifications holds the empty record of
\* a suppressed candidate between two emitted records.
C10_Witness ==
  /\ pc = "done"
  /\ Len(notifications) = 3
  /\ notifications[2].Event = ""
  /\ Len(printed) = 2

----------------------------------------------------------------------------
\* candidates for which buildNotification gave a record
EmittedIdx == {k \in BuiltIdx : notifications[Pos(k)].Event # ""}

\* two evaluations of one candidate against the same rows: the query returned
\* the candidate's row on two pages, and both got a record from the same policy
SameCandidateTwice ==
  {p \in EmittedIdx \X EmittedIdx :
     /\ p[1] < p[2]
     /\ allUsers[p[1]] = allUsers[p[2]]
     /\ trace[p[1]].cfg = trace[p[2]].cfg}

\* C11 as stated: the delay of an emitted record is occurredAt + delaySeconds
\* - now, and two evaluations of one candidate at now1 <= now2 give delays
\* that differ by exactly now2 - now1 (here: by the float64 value nearest to
\* now2 - now1) and records that agree in every other field.
C11_DelaysDifferByTheGap ==
  /\ \A k \in EmittedIdx :
       2 * (notifications[Pos(k)].Delay * TicksPerSecond - RemainingDelay(k) * FloatUnit)
         \in (- TicksPerSecond)..TicksPerSecond
  /\ \A p \in SameCandidateTwice :
       LET n1 == notifications[Pos(p[1])]
           n2 == notifications[Pos(p[2])]
           gap == trace[p[2]].at - trace[p[1]].at
       IN /\ 2 * ((n1.Delay - n2.Delay) * TicksPerSecond - gap * FloatUnit)
               \in (- TicksPerSecond)..TicksPerSecond
          /\ [n1 EXCEPT !.Delay = 0] = [n2 EXCEPT !.Delay = 0]

\* C11 as amended: the delay of an emitted record is the float64 nearest to
\* occurredAt + delaySeconds - now; two evaluations of one candidate at
\* now1 <= now2 give delays whose difference is now2 - now1 up to the rounding
\* of the two conversions, and records that agree in every other field.
C11_DelayIsRoundedRemainder ==
  /\ \A k \in EmittedIdx :
       2 * (notifications[Pos(k)].Delay * TicksPerSecond - RemainingDelay(k) * FloatUnit)
         \in (- TicksPerSecond)..TicksPerSecond
  /\ \A p \in SameCandidateTwice :
       LET n1 == notifications[Pos(p[1])]
           n2 == notifications[Pos(p[2])]
           gap == trace[p[2]].at - trace[p[1]].at
       IN /\ gap >= 0
          /\ ((n1.Delay - n2.Delay) * TicksPerSecond - gap * FloatUnit)
               \in (- TicksPerSecond)..TicksPerSecond
          /\ [n1 EXCEPT !.Delay = 0] = [n2 EXCEPT !.Delay = 0]

\* C11's case: one candidate evaluated twice, a tick apart, both emitted with
\* a delay that is no whole number of seconds.
C11_Witness ==
  \E p \in SameCandidateTwice :
    /\ trace[p[2]].at = trace[p[1]].at + 1
    /\ RemainingDelay(p[1]) % TicksPerSecond # 0
    /\ RemainingDelay(p[2]) % TicksPerSecond # 0
    /\ notifications[Pos(p[1])].Delay > notifications[Pos(p[2])].Delay

----------------------------------------------------------------------------
\* C12: the pagination loop requests pages at multiples of the page size and
\* stops after the first short page; against an unchanging store (and here
\* even an unchanging clock) the sequence it returns holds each result row
\* of the query exactly once.
C12_EachResultRowOnce ==
  /\ offset % batchSize = 0
  /\ (SourceReturned /\ now = Now0) =>
       \E S \in (IF variant = "card" THEN {CardResultSet(history, Now0)}
                 ELSE AadhaarResultSets(history, Now0)) :
         /\ Len(allUsers) = Cardinality(S)
         /\ {allUsers[i] : i \in 1..Len(allUsers)} = S

----------------------------------------------------------------------------
\* the latest rows of mobile number m in the history table
LatestRows(m) ==
  {r \in history : /\ r.mobile = m
                   /\ \A r2 \in history : r2.mobile = m => r2.createdAt <= r.createdAt}

\* a PAN_FORM row of a subject without any AADHAR row
IsDropOff(r) ==
  /\ r.status = "PAN_FORM"
  /\ ~ \E r2 \in history : r2.mobile = r.mobile /\ r2.status = "AADHAR"

\* C13: in the Aadhaar variant every returned candidate is the latest
\* in-window row of its subject and has one of the three event types: the
\* drop-off type exactly when the row is a PAN_FORM row of a subject without
\* AADHAR row, reject or failure when its status is in the respective list;
\* a subject whose latest row classifies to no event type yields no candidate.
C13_OnlyRecognizedEventTypes ==
  (SourceReturned /\ variant = "aadhaar") =>
    /\ \A i \in 1..Len(allUsers) :
         LET c == allUsers[i] IN
           /\ c.EventType \in {"AADHAR_FORM_DROPOFF", "AADHAAR_REJECT", "AADHAAR_FAILURE"}
           /\ \E r \in LatestRows(c.MobileNumber) :
                /\ r.status = c.Status
                /\ r.createdAt = c.CreatedAt
                /\ r.createdAt >= Now0 - LookbackTicks
                /\ (c.EventType = "AADHAR_FORM_DROPOFF") <=> IsDropOff(r)
                /\ (c.EventType = "AADHAAR_REJECT") => r.status \in rejectStatuses
                /\ (c.EventType = "AADHAAR_FAILURE") => r.status \in failureStatuses
    /\ \A m \in {r.mobile : r \in history} :
         (\A r \in LatestRows(m) :
            /\ ~ IsDropOff(r)
            /\ r.status \notin rejectStatuses
            /\ r.status \notin failureStatuses)
           => ~ \E i \in 1..Len(allUsers) : allUsers[i].MobileNumber = m

\* C13's case: one subject's latest row is a PAN_FORM row beside an AADHAR row
\* and yields nothing, another subject's PAN_FORM row yields a drop-off
\* candidate.
C13_Witness ==
  /\ SourceReturned
  /\ variant = "aadhaar"
  /\ \E r \in LatestRows("m2") : r.status = "PAN_FORM" /\ ~ IsDropOff(r)
  /\ ~ \E i \in 1..Len(allUsers) : allUsers[i].MobileNumber = "m2"
  /\ \E i \in 1..Len(allUsers) :
       /\ allUsers[i].MobileNumber = "m1"
       /\ allUsers[i].EventType = "AADHAR_FORM_DROPOFF"

\* C15: in both variants every candidate the source returns has a non-empty
\* mobile number.
C15_SubjectKeyNonEmpty ==
  SourceReturned => \A i \in 1..Len(allUsers) : allUsers[i].MobileNumber # ""

----------------------------------------------------------------------------
\* the place of the first row of user id u in the rows the query returned
FirstArrival(u) ==
  CHOOSE i \in 1..Len(customHeaders) :
    /\ customHeaders[i].UserID = u
    /\ \A j \in 1..(i - 1) : customHeaders[j].UserID # u

\* C14: the map of fetchCustomHeader holds, for every user id asked for that
\* has rows, the first row that arrived for it, which has the greatest update
\* time of the user id's rows, whatever rows arrived after it; a user id
\* without row, and a user id not asked for, is absent from the map.
C14_NewestHeaderWins ==
  pc = "loop" =>
    /\ DOMAIN customHeadersMap \subseteq UserIDsOf(userDetailsMap)
    /\ \A u \in UserIDsOf(userDetailsMap) :
         IF \A h \in headers : h.UserID # u
           THEN u \notin DOMAIN customHeadersMap
           ELSE /\ u \in DOMAIN customHeadersMap
                /\ \E i \in 1..Len(customHeaders) : customHeaders[i].UserID = u
                /\ LET first == customHeaders[FirstArrival(u)]
                   IN /\ customHeadersMap[u].XDeviceToken = first.XDeviceToken
                      /\ customHeadersMap[u].XPlatform = first.XPlatform
                      /\ \A h \in headers : h.UserID = u => h.UpdatedAt <= first.UpdatedAt

\* C14's case: user 1 has an older and a newer row with different tokens and
\* the map holds the newer one; user 2 is asked for and has no row; user 3
\* has a row and is not asked for.
C14_Witness ==
  /\ pc = "loop"
  /\ UserIDsOf(userDetailsMap) = {1, 2}
  /\ \E h1, h2 \in headers :
       /\ h1.UserID = 1 /\ h2.UserID = 1
       /\ h1.UpdatedAt < h2.UpdatedAt
       /\ h1.XDeviceToken # h2.XDeviceToken
       /\ customHeadersMap[1].XDeviceToken = h2.XDeviceToken
  /\ \E h \in headers : h.UserID = 3
  /\ DOMAIN customHeadersMap = {1}

----------------------------------------------------------------------------
\* C16: the output of one run holds at most one record per pair of user id
\* and event: no subject is scheduled twice for the same event.
C16_OneRecordPerUserAndEvent ==
  pc = "done" =>
    \A i, j \in 1..Len(printed) :
      (printed[i].UserID = printed[j].UserID /\ printed[i].Event = printed[j].Event)
        => i = j

====
